---- MODULE Spec2Model ----
(***************************************************************************)
(* PII detection and de-identification: the span resolvers of              *)
(* PresidioAnalyzer and AnalyzerEngine, the text rewriters of              *)
(* PresidioAnonymizer and AnonymizerEngine, the analyze pipelines with     *)
(* their recognizers, and the loading of the NER model.                    *)
(*                                                                         *)
(* Strings are sequences of character codes.  Scores are hundredths        *)
(* (0.95 is 95).  A RecognizerResult is a record                           *)
(* [entityType, start, end, score, text].                                  *)
(***************************************************************************)
EXTENDS Integers, Sequences, FiniteSets, TLC

\* ---------------------------------------------------------------- bounds
MaxCands == 3
MaxSpans == 3
MaxCalls == 2
\* Largest charsToMask drawn for a MASK operator.
MaxMask == 3
\* Most spans passed to an anonymize call when the operators are examined.
MaxOperatorSpans == 1
\* Most tokens the NER pipeline returns for the text.
MaxTokens == 3
\* Most recognizers added through addRecognizer.
MaxAdded == 1

\* -------------------------------------------------------------- constants
scoreThreshold == 50

\* Two of the EntityType values: one the pattern recognizers emit, one the
\* NER recognizers emit.
EntityTypes == {"URL", "PERSON"}

\* The (entity type, score) pairs the modelled recognizers emit: two types,
\* equal and different scores, scores on both sides of the threshold.
CandidateKinds ==
  {<<"URL", 80>>, <<"URL", 95>>, <<"PERSON", 40>>, <<"PERSON", 95>>}

VARIABLES
  results,      \* resolver: the candidates the recognizers produced, in push order
  resolved,     \* resolver: the list analyze returned
  objects,      \* resolver: the candidate objects after the call (same order as results)
  resolverPc,   \* resolver: "ready", "presidio" or "engine"
  defaultOperator,  \* anonymizer: the instance's default OperatorConfig
  operators,        \* anonymizer: entity type -> OperatorConfig (a partial map)
  analyzerResults,  \* anonymizer: the spans passed to anonymize, in the caller's order
  anonText,         \* anonymizer: the text passed to anonymize
  anonymized,       \* anonymizer: what anonymize returned
  anonPc,           \* anonymizer: "ready", "presidio" or "engine"
  anonClass,        \* anonymizer: the class of the instance, "presidio" or "engine"
  configured,       \* anonymizer: an operator configuration was supplied to the instance
  lastSet,          \* anonymizer: [default, byEntity], the configs most recently passed in
                    \*   (constructor or setter) as default and for each entity type
  analyzer,         \* analyze: the class of the analyzer instance, "presidio" or "engine"
  entities,         \* analyze: the call's optional entity filter
  callPc,           \* analyze: "idle", "running", "done" or "failed" (the call rejected)
  awaiting,         \* analyze: index of the recognizer the call is suspended on
  allResults,       \* analyze: the candidates pushed so far
  outcomes,         \* analyze: per recognizer run so far, [threw, found]
  returned,         \* analyze: the list the call returned
  analyzeText,      \* analyze: the text passed to analyze
  initializeCalled, \* analyze: initialize() was called on the analyzer before analyze
  recognizerClass,  \* model: "NERRecognizer" (PresidioAnalyzer) or "NerRecognizer" (AnalyzerEngine)
  nerPipeline,      \* model: this.nerPipeline, 0 (not set) or the number of the load that produced it
  loadsStarted,     \* model: how many times pipeline('token-classification', ...) was called
  loadsCompleted,   \* model: how many of those loads delivered a pipeline
  calls,            \* model: per call, [kind, pc, load, uses]
  cardText,         \* credit cards: the text given to the pattern recognizer
  cardClass,        \* credit cards: "static" (recognizeCreditCard) or "instance" (analyze)
  cardResults,      \* credit cards: the CREDIT_CARD results the recognizer returned
  cardPc,           \* credit cards: "ready" or "done"
  nerResults,       \* tokens: the tokens the NER pipeline returned for the text
  nerEntities,      \* tokens: the optional entity filter passed to NerRecognizer.analyze
  nerRecognized,    \* tokens: the results the recognizer returned
  nerPc,            \* tokens: "model", "NERRecognizer" or "NerRecognizer"
  recognizers,      \* concurrent calls: this.recognizers, the names in registration order
  inflight          \* concurrent calls: per analyze call, its position and locals

resolverVars == <<results, resolved, objects, resolverPc>>
anonVars == <<defaultOperator, operators, analyzerResults, anonText, anonymized, anonPc,
              anonClass, configured, lastSet>>

analyzeVars == <<analyzer, entities, callPc, awaiting, allResults, outcomes, returned,
                 analyzeText, initializeCalled>>

modelVars == <<recognizerClass, nerPipeline, loadsStarted, loadsCompleted, calls>>

cardVars == <<cardText, cardClass, cardResults, cardPc>>

tokenVars == <<nerResults, nerEntities, nerRecognized, nerPc>>

concurrentVars == <<recognizers, inflight>>

vars == <<results, resolved, objects, resolverPc,
          defaultOperator, operators, analyzerResults, anonText, anonymized, anonPc,
          anonClass, configured, lastSet,
          analyzer, entities, callPc, awaiting, allResults, outcomes, returned,
          analyzeText, initializeCalled,
          recognizerClass, nerPipeline, loadsStarted, loadsCompleted, calls,
          cardText, cardClass, cardResults, cardPc,
          nerResults, nerEntities, nerRecognized, nerPc,
          recognizers, inflight>>

\* The resolver before any candidate was pushed.
ResolverIdle ==
  /\ results = <<>>
  /\ resolved = <<>>
  /\ objects = <<>>
  /\ resolverPc = "ready"

\* No analyze call was made.
AnalyzeIdle ==
  /\ analyzer = "presidio"
  /\ entities = <<>>
  /\ callPc = "idle"
  /\ awaiting = 0
  /\ allResults = <<>>
  /\ outcomes = <<>>
  /\ returned = <<>>
  /\ analyzeText = <<>>
  /\ initializeCalled = FALSE

\* A call slot not yet used.
NoCall == [kind |-> "none", pc |-> "idle", load |-> 0, uses |-> 0]

\* A recognizer instance just constructed, no call made on it.
ModelIdle ==
  /\ recognizerClass = "NERRecognizer"
  /\ nerPipeline = 0
  /\ loadsStarted = 0
  /\ loadsCompleted = 0
  /\ calls = [c \in 1..MaxCalls |-> NoCall]

\* No text was given to a pattern recognizer for credit cards.
CardIdle ==
  /\ cardText = <<>>
  /\ cardClass = "static"
  /\ cardResults = <<>>
  /\ cardPc = "ready"

\* The NER pipeline returned no token yet.
TokenIdle ==
  /\ nerResults = <<>>
  /\ nerEntities = <<>>
  /\ nerRecognized = <<>>
  /\ nerPc = "model"

\* An analyze call not yet made.  `startedWith` is the number of recognizers
\* registered when the call started, `ran` the recognizers it has run,
\* `loaded` whether it started a model load of its own.
IdleCall ==
  [pc |-> "idle", text |-> <<>>, idx |-> 0, allResults |-> <<>>, returned |-> <<>>,
   loaded |-> FALSE, startedWith |-> 0, ran |-> <<>>]

\* No analyze call was made on the shared instance.
ConcurrentIdle ==
  /\ recognizers = <<"pattern", "ner">>
  /\ inflight = [c \in 1..MaxCalls |-> IdleCall]

\* ------------------------------------------------------- JavaScript helpers
Min(a, b) == IF a < b THEN a ELSE b
Max(a, b) == IF a > b THEN a ELSE b

\* String.prototype.substring: both indices are clamped to [0, length] and
\* swapped when the first exceeds the second.
Substring(s, a, b) ==
  LET ca == Min(Max(a, 0), Len(s))
      cb == Min(Max(b, 0), Len(s))
      lo == Min(ca, cb)
      hi == Max(ca, cb)
  IN SubSeq(s, lo + 1, hi)

\* Array.prototype.sort is stable: elements the comparator does not order keep
\* their relative order.  Less(a, b) is "comparator(a, b) < 0".
StableSort(s, Less(_, _)) ==
  LET n == Len(s)
      rank == [i \in 1..n |-> Cardinality({j \in 1..n :
                    Less(s[j], s[i]) \/ (~Less(s[i], s[j]) /\ j < i)})]
  IN [k \in 1..n |-> s[CHOOSE i \in 1..n : rank[i] = k - 1]]

\* Array.prototype.filter
FilterSeq(s, Keep(_)) ==
  LET keep == [i \in 1..Len(s) |-> Keep(s[i])]
      pos == [i \in 1..Len(s) |-> Cardinality({j \in 1..i : keep[j]})]
      n == IF Len(s) = 0 THEN 0 ELSE pos[Len(s)]
  IN [k \in 1..n |-> s[CHOOSE i \in 1..Len(s) : keep[i] /\ pos[i] = k]]

Reverse(s) == [i \in 1..Len(s) |-> s[Len(s) + 1 - i]]

\* ------------------------------------------------------------- candidates
\* The text under analysis, "abc": distinct characters, so that every slice
\* of it is told apart from every other.
AnalysedText == <<97, 98, 99>>
TextLen == Len(AnalysedText)

\* A RecognizerResult for the span [s, e) of `text`.
SpanOf(text, t, s, e, sc) ==
  [entityType |-> t, start |-> s, end |-> e, score |-> sc,
   text |-> Substring(text, s, e)]

Candidate(t, s, e, sc) == SpanOf(AnalysedText, t, s, e, sc)

Candidates ==
  {Candidate(k[1], se[1], se[2], k[2]) :
     k \in CandidateKinds,
     se \in {p \in (0..TextLen) \X (0..TextLen) : p[1] < p[2]}}

\* ------------------------------------------- PresidioAnalyzer.removeOverlaps
RemoveOverlapsLess(a, b) ==
  IF a.start # b.start THEN a.start - b.start < 0 ELSE b.score - a.score < 0

\* The test with its first disjunct (the start inside `existing`) left out.
HasOverlapWith_EndOnly(result, existing) ==
  \/ (result.end > existing.start /\ result.end <= existing.end)
  \/ (result.start <= existing.start /\ result.end >= existing.end)

\* The test with a start at the very end of `existing` counted as inside it.
HasOverlapWith_Touching(result, existing) ==
  \/ (result.start >= existing.start /\ result.start <= existing.end)
  \/ (result.end > existing.start /\ result.end <= existing.end)
  \/ (result.start <= existing.start /\ result.end >= existing.end)

HasOverlapWith(result, existing) ==
  \/ (result.start >= existing.start /\ result.start < existing.end)
  \/ (result.end > existing.start /\ result.end <= existing.end)
  \/ (result.start <= existing.start /\ result.end >= existing.end)

RECURSIVE RemoveOverlapsLoop(_, _, _)
RemoveOverlapsLoop(sorted, k, filtered) ==
  IF k > Len(sorted) THEN filtered
  ELSE LET result == sorted[k]
           hasOverlap == \E i \in 1..Len(filtered) : HasOverlapWith(result, filtered[i])
       IN RemoveOverlapsLoop(sorted, k + 1,
            IF hasOverlap THEN filtered ELSE Append(filtered, result))

removeOverlaps(rs) ==
  IF Len(rs) = 0 THEN rs
  ELSE RemoveOverlapsLoop(StableSort(rs, RemoveOverlapsLess), 1, <<>>)

ByStartLess(a, b) == a.start - b.start < 0

\* ---------------------------------------------- AnalyzerEngine.mergeResults
\* The loop works on object references: st.heap holds the candidate objects
\* (index = identity), st.merged the references pushed to `merged`.
MergeStep(st, cur) ==
  LET heap == st.heap
      merged == st.merged
      current == heap[cur]
  IN IF Len(merged) = 0 THEN [st EXCEPT !.merged = Append(merged, cur)]
     ELSE LET li == merged[Len(merged)]
              last == heap[li]
          IN IF current.start < last.end
             THEN IF current.score > last.score
                  THEN IF current.end >= last.end
                       THEN [st EXCEPT !.merged[Len(merged)] = cur]
                       ELSE st
                  ELSE IF current.end > last.end
                       THEN [st EXCEPT !.heap[li].end = current.end,
                                       !.heap[li].text =
                                          IF current.text # <<>> THEN current.text
                                          ELSE last.text]
                       ELSE st
             ELSE [st EXCEPT !.merged = Append(merged, cur)]

RECURSIVE MergeLoop(_, _, _)
MergeLoop(st, sorted, k) ==
  IF k > Len(sorted) THEN st
  ELSE MergeLoop(MergeStep(st, sorted[k]), sorted, k + 1)

\* Returns [heap, merged]: the objects after the call and the references returned.
mergeResults(rs) ==
  IF Len(rs) = 0 THEN [heap |-> rs, merged |-> <<>>]
  ELSE LET ByStartIdx(i, j) == rs[i].start - rs[j].start < 0
           sorted == StableSort([i \in 1..Len(rs) |-> i], ByStartIdx)
       IN MergeLoop([heap |-> rs, merged |-> <<>>], sorted, 1)

Deref(heap, refs) == [i \in 1..Len(refs) |-> heap[refs[i]]]

\* ------------------------------------------------------ the analyze tails
\* An optional value is <<>> (undefined) or <<v>>.  `entities` is an optional
\* set of entity types.
Undefined == <<>>
Some(v) == <<v>>
NoFilter == Undefined

EntityFilter(rs, ents) ==
  IF ents = Undefined THEN rs
  ELSE FilterSeq(rs, LAMBDA r : r.entityType \in ents[1])

\* PresidioAnalyzer.analyze from the point where `results` is complete:
\* filter, removeOverlaps, sort by position.
PresidioResolve(rs, ents) ==
  StableSort(removeOverlaps(EntityFilter(rs, ents)), ByStartLess)

ThresholdFilter(rs) == FilterSeq(rs, LAMBDA r : r.score >= scoreThreshold)

\* AnalyzerEngine.analyze from the point where `allResults` is complete:
\* mergeResults, then the score threshold.  Returns [heap, out].
EngineResolve(rs) ==
  LET m == mergeResults(rs)
  IN [heap |-> m.heap, out |-> ThresholdFilter(Deref(m.heap, m.merged))]

\* =============================================================== operators
\* An OperatorConfig: type, and the optional newValue (string), maskingChar
\* (string), charsToMask (number) and fromEnd (boolean).
OperatorConfig(type, newValue, maskingChar, charsToMask, fromEnd) ==
  [type |-> type, newValue |-> newValue, maskingChar |-> maskingChar,
   charsToMask |-> charsToMask, fromEnd |-> fromEnd]

\* The enum values' strings as characters.
EntityTypeChars(t) ==
  CASE t = "URL" -> <<85, 82, 76>>
    [] t = "PERSON" -> <<80, 69, 82, 83, 79, 78>>

\* The entity type's name without the angle brackets.
Bracketed_Bare(t) == EntityTypeChars(t)

\* `<${entityType}>`
Bracketed(t) == <<60>> \o EntityTypeChars(t) \o <<62>>

\* JavaScript truthiness of an optional string, number or boolean.
TruthyString(o) == o # Undefined /\ o[1] # <<>>
TruthyNumber(o) == o # Undefined /\ o[1] # 0
TruthyBool(o) == o # Undefined /\ o[1]

\* String.prototype.repeat, for a count >= 0.
RECURSIVE Repeat(_, _)
Repeat(s, n) == IF n <= 0 THEN <<>> ELSE s \o Repeat(s, n - 1)

\* fromEnd ignored: a partial mask always covers the start of the value.
maskValue_FromStartOnly(value, maskingChar, charsToMask, fromEnd) ==
  IF ~TruthyNumber(charsToMask) \/ charsToMask[1] >= Len(value)
  THEN Repeat(maskingChar, Len(value))
  ELSE Repeat(maskingChar, charsToMask[1])
         \o Substring(value, charsToMask[1], Len(value))

\* PresidioAnonymizer.maskValue
maskValue(value, maskingChar, charsToMask, fromEnd) ==
  IF ~TruthyNumber(charsToMask) \/ charsToMask[1] >= Len(value)
  THEN Repeat(maskingChar, Len(value))
  ELSE IF TruthyBool(fromEnd)
       THEN Substring(value, 0, Len(value) - charsToMask[1])
              \o Repeat(maskingChar, charsToMask[1])
       ELSE Repeat(maskingChar, charsToMask[1])
              \o Substring(value, charsToMask[1], Len(value))

\* PresidioAnonymizer.applyOperator, for the operator types this model draws
\* (redact, replace, mask; any other type takes the default branch).
applyOperator(value, operator, entityType) ==
  CASE operator.type = "redact" -> Bracketed(entityType)
    [] operator.type = "replace" ->
         IF TruthyString(operator.newValue) THEN operator.newValue[1]
         ELSE Bracketed(entityType)
    [] operator.type = "mask" ->
         maskValue(value,
                   IF TruthyString(operator.maskingChar) THEN operator.maskingChar[1]
                   ELSE <<42>>,
                   operator.charsToMask, operator.fromEnd)
    [] OTHER -> Bracketed(entityType)

\* The empty string in place of the placeholder.
AnonymizedLiteral_Empty == <<>>

\* '<ANONYMIZED>'
AnonymizedLiteral == <<60, 65, 78, 79, 78, 89, 77, 73, 90, 69, 68, 62>>

\* MaskOperator.operate's maskedText, for charsToMask = -1 or >= 0.
MaskOperatorText(entityText, maskingChar, charsToMask, fromEnd) ==
  IF charsToMask = -1 THEN Repeat(maskingChar, Len(entityText))
  ELSE LET numToMask == Min(charsToMask, Len(entityText))
       IN IF fromEnd
          THEN Substring(entityText, 0, Len(entityText) - numToMask)
                 \o Repeat(maskingChar, numToMask)
          ELSE Repeat(maskingChar, numToMask)
                 \o Substring(entityText, numToMask, Len(entityText))

\* OperatorFactory.createOperator(config).operate(text, start, end), for the
\* operator types this model draws: [ok, text]; ok is FALSE when
\* createOperator throws.
FactoryOperate(config, text, start, end) ==
  LET entityText == Substring(text, start, end)
      splice(r) == [ok |-> TRUE,
                    text |-> Substring(text, 0, start) \o r
                               \o Substring(text, end, Len(text))]
  IN CASE config.type = "redact" ->
            splice(IF config.newValue # Undefined THEN config.newValue[1] ELSE <<>>)
       [] config.type = "replace" ->
            splice(IF TruthyString(config.newValue) THEN config.newValue[1]
                   ELSE AnonymizedLiteral)
       [] config.type = "mask" ->
            splice(MaskOperatorText(entityText,
                     IF TruthyString(config.maskingChar) THEN config.maskingChar[1]
                     ELSE <<42>>,
                     IF TruthyNumber(config.charsToMask) THEN config.charsToMask[1]
                     ELSE -1,
                     TruthyBool(config.fromEnd)))
       [] OTHER -> [ok |-> FALSE, text |-> text]

\* The per-entity map ignored: every span gets the default operator.
OperatorFor_DefaultOnly(ops, dflt, entityType) == dflt

\* operators?.get(entityType) || defaultOperator
OperatorFor(ops, dflt, entityType) ==
  IF entityType \in DOMAIN ops THEN ops[entityType] ELSE dflt

\* ============================================================== anonymizers
\* The comparator the wrong way round: spans processed front to back.
ByStartDescLess_Ascending(a, b) == a.start - b.start < 0

ByStartDescLess(a, b) == b.start - a.start < 0

\* One iteration of PresidioAnonymizer.anonymize's loop; st is
\* [text, items] (anonymizedText and items so far).
PresidioAnonymizeStep(st, result, ops, dflt) ==
  LET operator == OperatorFor(ops, dflt, result.entityType)
      anonymizedValue == applyOperator(result.text, operator, result.entityType)
  IN [text |-> Substring(st.text, 0, result.start) \o anonymizedValue
                 \o Substring(st.text, result.end, Len(st.text)),
      items |-> Append(st.items,
                  [start |-> result.start,
                   end |-> result.start + Len(anonymizedValue),
                   entityType |-> result.entityType,
                   text |-> anonymizedValue,
                   operator |-> operator.type])]

RECURSIVE PresidioAnonymizeLoop(_, _, _, _, _)
PresidioAnonymizeLoop(st, sorted, k, ops, dflt) ==
  IF k > Len(sorted) THEN st
  ELSE PresidioAnonymizeLoop(PresidioAnonymizeStep(st, sorted[k], ops, dflt),
                             sorted, k + 1, ops, dflt)

\* PresidioAnonymizer.anonymize(text, analyzerResults, operators)
PresidioAnonymize(text, rs, ops, dflt) ==
  LET sortedResults == StableSort(rs, ByStartDescLess)
      st == PresidioAnonymizeLoop([text |-> text, items |-> <<>>],
                                  sortedResults, 1, ops, dflt)
  IN [ok |-> TRUE, text |-> st.text, items |-> Reverse(st.items)]

\* One iteration of AnonymizerEngine.anonymize's loop; st is [ok, text, items];
\* once createOperator has thrown (ok = FALSE) the call is over.
EngineAnonymizeStep(st, result, ops, dflt) ==
  IF ~st.ok THEN st
  ELSE LET operatorConfig == OperatorFor(ops, dflt, result.entityType)
           originalText == Substring(st.text, result.start, result.end)
           operated == FactoryOperate(operatorConfig, st.text, result.start, result.end)
       IN IF ~operated.ok THEN [st EXCEPT !.ok = FALSE]
          ELSE [ok |-> TRUE,
                text |-> operated.text,
                \* items.unshift(...)
                items |-> <<[operator |-> operatorConfig.type,
                             entityType |-> result.entityType,
                             start |-> result.start,
                             end |-> result.end,
                             text |-> originalText]>> \o st.items]

RECURSIVE EngineAnonymizeLoop(_, _, _, _, _)
EngineAnonymizeLoop(st, sorted, k, ops, dflt) ==
  IF k > Len(sorted) THEN st
  ELSE EngineAnonymizeLoop(EngineAnonymizeStep(st, sorted[k], ops, dflt),
                           sorted, k + 1, ops, dflt)

\* AnonymizerEngine.anonymize(text, analyzerResults): [ok, text, items]; ok
\* is FALSE when the call throws.
EngineAnonymize(text, rs, ops, dflt) ==
  IF text = <<>> \/ Len(rs) = 0 THEN [ok |-> TRUE, text |-> text, items |-> <<>>]
  ELSE LET sortedResults == StableSort(rs, ByStartDescLess)
           st == EngineAnonymizeLoop([ok |-> TRUE, text |-> text, items |-> <<>>],
                                     sortedResults, 1, ops, dflt)
       IN IF st.ok THEN [ok |-> TRUE, text |-> st.text, items |-> Reverse(st.items)]
          ELSE [ok |-> FALSE, text |-> <<>>, items |-> <<>>]

\* ------------------------------------------------- anonymizer: the calls
RedactConfig == OperatorConfig("redact", Undefined, Undefined, Undefined, Undefined)
\* { type: REPLACE, newValue: 'X' }
ReplaceConfig == OperatorConfig("replace", Some(<<88>>), Undefined, Undefined, Undefined)
\* { type: MASK }
MaskConfig == OperatorConfig("mask", Undefined, Undefined, Undefined, Undefined)

OperatorConfigs == {RedactConfig, ReplaceConfig, MaskConfig}

\* The per-entity maps drawn: none, or one entry for URL.
OperatorMaps ==
  UNION {[D -> OperatorConfigs] : D \in {{}, {"URL"}}}

NoResult == [ok |-> TRUE, text |-> <<>>, items |-> <<>>]

AnonIdle ==
  /\ defaultOperator = RedactConfig
  /\ operators = [t \in {} |-> RedactConfig]
  /\ analyzerResults = <<>>
  /\ anonText = <<>>
  /\ anonymized = NoResult
  /\ anonPc = "ready"
  /\ anonClass = "presidio"
  /\ configured = FALSE
  /\ lastSet = [default |-> defaultOperator, byEntity |-> operators]

\* An anonymizer constructed with a default operator, per-entity operators,
\* and the text a caller is about to anonymize.
AnonInit ==
  /\ defaultOperator \in OperatorConfigs
  /\ operators \in OperatorMaps
  /\ analyzerResults = <<>>
  /\ anonText \in {<<>>, AnalysedText}
  /\ anonymized = NoResult
  /\ anonPc = "ready"
  /\ anonClass \in {"presidio", "engine"}
  /\ configured = TRUE
  /\ lastSet = [default |-> defaultOperator, byEntity |-> operators]
  /\ ResolverIdle
  /\ CardIdle
  /\ TokenIdle
  /\ ConcurrentIdle
  /\ AnalyzeIdle
  /\ ModelIdle

\* The caller adds one more in-range span to the list it will pass.
CallerAddsSpan ==
  /\ anonPc = "ready"
  /\ Len(analyzerResults) < MaxSpans
  /\ \E t \in EntityTypes, s \in 0..Len(anonText), e \in 0..Len(anonText) :
       /\ s < e
       /\ analyzerResults' = Append(analyzerResults, SpanOf(anonText, t, s, e, 95))
  /\ UNCHANGED <<defaultOperator, operators, anonText, anonymized, anonPc,
                 anonClass, configured, lastSet>>
  /\ UNCHANGED <<resolverVars, analyzeVars, modelVars, cardVars, tokenVars, concurrentVars>>

PresidioAnonymizeCall ==
  /\ anonPc = "ready"
  /\ anonClass = "presidio"
  /\ anonymized' = PresidioAnonymize(anonText, analyzerResults, operators, defaultOperator)
  /\ anonPc' = "presidio"
  /\ UNCHANGED <<defaultOperator, operators, analyzerResults, anonText,
                 anonClass, configured, lastSet>>
  /\ UNCHANGED <<resolverVars, analyzeVars, modelVars, cardVars, tokenVars, concurrentVars>>

EngineAnonymizeCall ==
  /\ anonPc = "ready"
  /\ anonClass = "engine"
  /\ anonymized' = EngineAnonymize(anonText, analyzerResults, operators, defaultOperator)
  /\ anonPc' = "engine"
  /\ UNCHANGED <<defaultOperator, operators, analyzerResults, anonText,
                 anonClass, configured, lastSet>>
  /\ UNCHANGED <<resolverVars, analyzeVars, modelVars, cardVars, tokenVars, concurrentVars>>

AnonNext == CallerAddsSpan \/ PresidioAnonymizeCall \/ EngineAnonymizeCall

SpecAnonymizer == AnonInit /\ [][AnonNext]_vars

\* ---------------------------------------------------- anonymizer: claims
AnonDone == anonPc \in {"presidio", "engine"}

PairwiseNonOverlapping(rs) ==
  \A i, j \in 1..Len(rs) : i # j => ~(rs[i].start < rs[j].end /\ rs[j].start < rs[i].end)

\* The operator configuration selected for a span, and the string that
\* operator yields for the span's own text, for the implementation that ran.
ConfigOf(span) == OperatorFor(operators, defaultOperator, span.entityType)

ReplacementOf(span) ==
  IF anonPc = "presidio"
  THEN applyOperator(span.text, ConfigOf(span), span.entityType)
  ELSE FactoryOperate(ConfigOf(span), span.text, 0, Len(span.text)).text

\* The original text read left to right, each span replaced, everything
\* between the spans copied: `asc` is the span list in ascending start order.
RECURSIVE RewrittenFrom(_, _, _)
RewrittenFrom(pos, asc, k) ==
  IF k > Len(asc) THEN Substring(anonText, pos, Len(anonText))
  ELSE Substring(anonText, pos, asc[k].start) \o ReplacementOf(asc[k])
         \o RewrittenFrom(asc[k].end, asc, k + 1)

AscendingSpans == StableSort(analyzerResults, ByStartLess)

\* C2: for pairwise non-overlapping in-range spans in any order, anonymize
\* returns the original text with each span replaced by its operator's
\* replacement and every other character kept in place; with no spans it
\* returns the text unchanged and no items.
C2_RewriteIsSpanwise ==
  (AnonDone /\ PairwiseNonOverlapping(analyzerResults)) =>
    /\ anonymized.ok
    /\ anonymized.text = RewrittenFrom(0, AscendingSpans, 1)
    /\ Len(analyzerResults) = 0 =>
         (anonymized.text = anonText /\ anonymized.items = <<>>)

\* Two disjoint spans passed in ascending order, the first replaced by a
\* string of another length, and a third character left between or after.
C2_Witness ==
  /\ AnonDone
  /\ Len(analyzerResults) = 2
  /\ analyzerResults[1].end <= analyzerResults[2].start
  /\ Len(ReplacementOf(analyzerResults[1])) # Len(analyzerResults[1].text)
  /\ Len(ReplacementOf(analyzerResults[2])) # Len(analyzerResults[2].text)
  /\ anonymized.text = RewrittenFrom(0, analyzerResults, 1)

\* C5: items holds exactly one item per input span, in ascending order of
\* the spans' original start.
C5_ItemsAscending ==
  (AnonDone /\ anonymized.ok) =>
    /\ Len(anonymized.items) = Len(analyzerResults)
    /\ \A i \in 1..Len(anonymized.items) - 1 :
         anonymized.items[i].start <= anonymized.items[i + 1].start

\* C6: every item belongs to an input span of the same start and entity
\* type, its text is the replacement inserted for that span and its operator
\* is the type of the operator used for it.
C6_ItemTextIsReplacement ==
  (AnonDone /\ anonymized.ok) =>
    \A i \in 1..Len(anonymized.items) :
      \E k \in 1..Len(analyzerResults) :
        LET item == anonymized.items[i]
            span == analyzerResults[k]
        IN /\ item.start = span.start
           /\ item.entityType = span.entityType
           /\ item.operator = ConfigOf(span).type
           /\ item.text = ReplacementOf(span)

\* C7: for PresidioAnonymizer, every item's start and end locate the item's
\* text in the anonymized text.
C7_ItemPositionsInOutput ==
  (anonPc = "presidio" /\ PairwiseNonOverlapping(analyzerResults)) =>
    \A i \in 1..Len(anonymized.items) :
      Substring(anonymized.text, anonymized.items[i].start, anonymized.items[i].end)
        = anonymized.items[i].text

\* C13: PresidioAnonymizer.anonymize gives every span the operator mapped to
\* its entity type when the map has one and the default operator otherwise,
\* whatever the other spans are: each item carries that operator's type and
\* that operator's replacement of the span's text.
C13_OperatorPerEntityType ==
  anonPc = "presidio" =>
    /\ Len(anonymized.items) = Len(analyzerResults)
    /\ \A k \in 1..Len(analyzerResults) :
         LET span == analyzerResults[k]
             chosen == IF span.entityType \in DOMAIN operators
                       THEN operators[span.entityType]
                       ELSE defaultOperator
         IN \E i \in 1..Len(anonymized.items) :
              /\ anonymized.items[i].start = span.start
              /\ anonymized.items[i].entityType = span.entityType
              /\ anonymized.items[i].operator = chosen.type
              /\ anonymized.items[i].text
                   = applyOperator(span.text, chosen, span.entityType)
    /\ \A i \in 1..Len(anonymized.items) :
         \E k \in 1..Len(analyzerResults) :
           /\ anonymized.items[i].start = analyzerResults[k].start
           /\ anonymized.items[i].entityType = analyzerResults[k].entityType

\* One call with a span of a mapped type and a span of an unmapped type,
\* whose operators differ.
C13_Witness ==
  /\ anonPc = "presidio"
  /\ "URL" \in DOMAIN operators
  /\ operators["URL"].type # defaultOperator.type
  /\ \E i, j \in 1..Len(anonymized.items) :
       /\ anonymized.items[i].entityType = "URL"
       /\ anonymized.items[i].operator = operators["URL"].type
       /\ anonymized.items[j].entityType = "PERSON"
       /\ anonymized.items[j].operator = defaultOperator.type

\* ================================================= operator configuration
\* An anonymizer constructed with or without a default operator, configured
\* further through AnonymizerEngine's setters, and one anonymize call on it.

\* { type: REPLACE, newValue: '<ANONYMIZED>' }
ReplaceAnonymizedConfig ==
  OperatorConfig("replace", Some(AnonymizedLiteral), Undefined, Undefined, Undefined)
\* { type: REPLACE }
ReplaceNoValueConfig == OperatorConfig("replace", Undefined, Undefined, Undefined, Undefined)
\* { type: REPLACE, newValue: '' }
ReplaceEmptyConfig == OperatorConfig("replace", Some(<<>>), Undefined, Undefined, Undefined)
\* { type: 'encrypt' } with no key
EncryptNoKeyConfig == OperatorConfig("encrypt", Undefined, Undefined, Undefined, Undefined)
\* A type string no anonymizer has a case for.
UnsupportedConfig == OperatorConfig("keep", Undefined, Undefined, Undefined, Undefined)

\* { type: MASK, maskingChar?, charsToMask?, fromEnd? } with a one-character
\* maskingChar ('#') and charsToMask >= 0.
MaskConfigs ==
  {OperatorConfig("mask", Undefined, mc, n, fe) :
     mc \in {Undefined, Some(<<35>>)},
     n \in {Undefined} \cup {Some(k) : k \in 0..MaxMask},
     fe \in {Undefined, Some(TRUE), Some(FALSE)}}

\* The configurations passed to a constructor, and to the setters.
SuppliedConfigs ==
  {RedactConfig, ReplaceConfig, ReplaceNoValueConfig, ReplaceEmptyConfig,
   EncryptNoKeyConfig, UnsupportedConfig}
    \cup MaskConfigs
SetterConfigs ==
  {RedactConfig, ReplaceAnonymizedConfig, EncryptNoKeyConfig, UnsupportedConfig}

\* Both classes falling back to { type: REDACT }.
ConstructedDefault_AlwaysRedact(class, given) ==
  IF given # Undefined THEN given[1] ELSE RedactConfig

\* The default operator after construction: PresidioAnonymizer's parameter
\* default is { type: REDACT }; AnonymizerEngine falls back to
\* { type: REPLACE, newValue: '<ANONYMIZED>' }.
ConstructedDefault(class, given) ==
  IF given # Undefined THEN given[1]
  ELSE IF class = "presidio" THEN RedactConfig ELSE ReplaceAnonymizedConfig

\* The empty Map, and the config.operatorsByEntity maps passed to an
\* AnonymizerEngine constructor: none, or one entry for URL.
NoOperators == [t \in {} |-> RedactConfig]
ConstructorOperatorMaps == {NoOperators, [t \in {"URL"} |-> MaskConfig]}

\* set(key, value) dropping every other entry of the map.
MapSet_Only(m, key, value) == [x \in {key} |-> value]

\* Map.prototype.set(key, value)
MapSet(m, key, value) ==
  [x \in DOMAIN m \cup {key} |-> IF x = key THEN value ELSE m[x]]

RECURSIVE ForEachSet(_, _)
\* config.operatorsByEntity.forEach((value, key) => map.set(key.toString(), value))
\* from the map `done` on; the enum values are their own strings.
ForEachSet(given, done) ==
  IF DOMAIN given \subseteq DOMAIN done THEN done
  ELSE LET key == CHOOSE k \in DOMAIN given : k \notin DOMAIN done
       IN ForEachSet(given, MapSet(done, key, given[key]))

\* this.operatorsByEntity after construction.
ConstructedOperators(givenByEntity) == ForEachSet(givenByEntity, NoOperators)

\* The operator types each anonymizer has a case for.
ImplementedTypes(class) ==
  IF class = "presidio" THEN {"redact", "replace", "mask", "hash"}
  ELSE {"redact", "replace", "mask", "hash", "encrypt"}

OperatorInit ==
  /\ anonClass \in {"presidio", "engine"}
  /\ \E given \in {Undefined} \cup {Some(c) : c \in SuppliedConfigs},
        givenByEntity \in ConstructorOperatorMaps :
       /\ anonClass = "presidio" => givenByEntity = NoOperators
       /\ configured = (given # Undefined \/ givenByEntity # NoOperators)
       /\ defaultOperator = ConstructedDefault(anonClass, given)
       /\ operators = ConstructedOperators(givenByEntity)
       /\ lastSet = [default |-> ConstructedDefault(anonClass, given),
                     byEntity |-> givenByEntity]
  /\ analyzerResults = <<>>
  /\ anonText \in {<<>>, AnalysedText}
  /\ anonymized = NoResult
  /\ anonPc = "ready"
  /\ ResolverIdle
  /\ CardIdle
  /\ TokenIdle
  /\ ConcurrentIdle
  /\ AnalyzeIdle
  /\ ModelIdle

\* AnonymizerEngine.setDefaultOperator(config)
SetDefaultOperator ==
  /\ anonPc = "ready"
  /\ anonClass = "engine"
  /\ \E c \in SetterConfigs :
       /\ defaultOperator' = c
       /\ lastSet' = [lastSet EXCEPT !.default = c]
  /\ configured' = TRUE
  /\ UNCHANGED <<operators, analyzerResults, anonText, anonymized, anonPc, anonClass>>
  /\ UNCHANGED <<resolverVars, analyzeVars, modelVars, cardVars, tokenVars, concurrentVars>>

\* AnonymizerEngine.addOperatorForEntity(entityType, config)
AddOperatorForEntity ==
  /\ anonPc = "ready"
  /\ anonClass = "engine"
  /\ \E t \in EntityTypes, c \in SetterConfigs :
       /\ operators' = MapSet(operators, t, c)
       /\ lastSet' = [lastSet EXCEPT !.byEntity =
                        [x \in DOMAIN @ \cup {t} |-> IF x = t THEN c ELSE @[x]]]
  /\ configured' = TRUE
  /\ UNCHANGED <<defaultOperator, analyzerResults, anonText, anonymized, anonPc, anonClass>>
  /\ UNCHANGED <<resolverVars, analyzeVars, modelVars, cardVars, tokenVars, concurrentVars>>

\* The caller adds an in-range span to the list it will pass.
CallerPassesSpan ==
  /\ anonPc = "ready"
  /\ Len(analyzerResults) < MaxOperatorSpans
  /\ \E t \in EntityTypes, s \in 0..Len(anonText), e \in 0..Len(anonText) :
       /\ s < e
       /\ analyzerResults' = Append(analyzerResults, SpanOf(anonText, t, s, e, 95))
  /\ UNCHANGED <<defaultOperator, operators, anonText, anonymized, anonPc,
                 anonClass, configured, lastSet>>
  /\ UNCHANGED <<resolverVars, analyzeVars, modelVars, cardVars, tokenVars, concurrentVars>>

OperatorNext ==
  \/ SetDefaultOperator
  \/ AddOperatorForEntity
  \/ CallerPassesSpan
  \/ PresidioAnonymizeCall
  \/ EngineAnonymizeCall

SpecOperator == OperatorInit /\ [][OperatorNext]_vars

\* ------------------------------------------ operator configuration: claims
\* A call made with exactly one span, and that span's operator configuration.
OneSpanDone == AnonDone /\ Len(analyzerResults) = 1
TheSpan == analyzerResults[1]
TheConfig == ConfigOf(TheSpan)

\* The text with the span replaced by r and everything else in place.
SplicedWith(r) ==
  Substring(anonText, 0, TheSpan.start) \o r
    \o Substring(anonText, TheSpan.end, Len(anonText))

\* '<T>' for the entity type T, and '<ANONYMIZED>', as the claims spell them.
InAngleBrackets(t) ==
  CASE t = "URL" -> <<60, 85, 82, 76, 62>>
    [] t = "PERSON" -> <<60, 80, 69, 82, 83, 79, 78, 62>>
AnonymizedPlaceholder == <<60, 65, 78, 79, 78, 89, 77, 73, 90, 69, 68, 62>>

RedactWithoutReplacement ==
  OneSpanDone /\ TheConfig.type = "redact" /\ TheConfig.newValue = Undefined

C15_UnconfiguredDefaultIsRedact ==
  (AnonDone /\ ~configured) =>
    /\ defaultOperator.type = "redact"
    /\ \A i \in 1..Len(anonymized.items) : anonymized.items[i].operator = "redact"

\* C15 amended: without configuration a PresidioAnonymizer uses
\* { type: REDACT } and an AnonymizerEngine
\* { type: REPLACE, newValue: '<ANONYMIZED>' }; every item reports that type.
C15_UnconfiguredDefaultPerClass ==
  (AnonDone /\ ~configured) =>
    /\ anonClass = "presidio" =>
         (defaultOperator.type = "redact" /\ defaultOperator.newValue = Undefined)
    /\ anonClass = "engine" =>
         (defaultOperator.type = "replace"
            /\ defaultOperator.newValue = Some(AnonymizedPlaceholder))
    /\ \A i \in 1..Len(anonymized.items) :
         anonymized.items[i].operator = (IF anonClass = "presidio" THEN "redact"
                                         ELSE "replace")

\* An unconfigured AnonymizerEngine replaced the span "ab" by '<ANONYMIZED>'.
C15_Witness ==
  /\ OneSpanDone
  /\ ~configured
  /\ anonClass = "engine"
  /\ anonymized.items[1].operator = "replace"
  /\ anonymized.text = AnonymizedPlaceholder \o <<99>>

\* C16 as stated: REPLACE replaces the span by newValue when newValue is
\* given, and by what REDACT yields for the span, '<T>', when it is not.
C16_ReplaceFallsBackToRedact ==
  (OneSpanDone /\ TheConfig.type = "replace") =>
    /\ anonymized.ok
    /\ anonymized.text =
         SplicedWith(IF TheConfig.newValue # Undefined THEN TheConfig.newValue[1]
                     ELSE InAngleBrackets(TheSpan.entityType))

\* C16 amended: REPLACE replaces the span by newValue when a non-empty
\* newValue is given; without one (none, or the empty string)
\* PresidioAnonymizer inserts '<T>' and AnonymizerEngine '<ANONYMIZED>'.
C16_ReplaceFallbackPerClass ==
  (OneSpanDone /\ TheConfig.type = "replace") =>
    /\ anonymized.ok
    /\ anonymized.text =
         SplicedWith(IF TheConfig.newValue # Undefined /\ TheConfig.newValue[1] # <<>>
                     THEN TheConfig.newValue[1]
                     ELSE IF anonClass = "presidio"
                          THEN InAngleBrackets(TheSpan.entityType)
                          ELSE AnonymizedPlaceholder)

\* An AnonymizerEngine given { type: REPLACE } without newValue replaced the
\* span "ab".
C16_Witness ==
  /\ OneSpanDone
  /\ anonClass = "engine"
  /\ configured
  /\ TheConfig.type = "replace"
  /\ TheConfig.newValue = Undefined
  /\ anonymized.text = AnonymizedPlaceholder \o <<99>>

\* The masked span C17 describes: n characters, of which the first k (or the
\* last k with fromEnd) are the masking character and the others the span's
\* own; k is n when charsToMask is unset or >= n, and charsToMask otherwise.
ExpectedMask ==
  LET n == Len(TheSpan.text)
      mc == IF TheConfig.maskingChar # Undefined THEN TheConfig.maskingChar[1][1] ELSE 42
      k == IF TheConfig.charsToMask = Undefined \/ TheConfig.charsToMask[1] >= n
           THEN n ELSE TheConfig.charsToMask[1]
      atEnd == TheConfig.fromEnd = Some(TRUE)
  IN [i \in 1..n |->
        IF (atEnd /\ i > n - k) \/ (~atEnd /\ i <= k) THEN mc ELSE TheSpan.text[i]]

C26_MaskZeroMasksNothing ==
  (OneSpanDone /\ TheConfig.type = "mask" /\ TheConfig.charsToMask = Some(0)) =>
    /\ anonymized.ok
    /\ anonymized.text = anonText

\* The config most recently passed in for entity type t, or else the one most
\* recently passed in as default.
MostRecentConfig(t) ==
  IF t \in DOMAIN lastSet.byEntity THEN lastSet.byEntity[t] ELSE lastSet.default

\* C27: on an AnonymizerEngine, after any sequence of setter calls, the
\* operator of each entity type is the one most recently passed for that type
\* (addOperatorForEntity or the constructor's operatorsByEntity) and the
\* default the one most recently passed as default (setDefaultOperator or the
\* constructor), so no setter disturbs what it was not called for; and
\* anonymize applies to a span of type T the most recent config for T, or
\* else the most recent default.
C27_SettersLastWriteWins ==
  anonClass = "engine" =>
    /\ defaultOperator = lastSet.default
    /\ operators = lastSet.byEntity
    /\ (anonPc = "engine" /\ anonymized.ok) =>
         \A i \in 1..Len(anonymized.items) :
           anonymized.items[i].operator =
             MostRecentConfig(anonymized.items[i].entityType).type
    /\ (OneSpanDone /\ anonText # <<>>) =>
         LET expected == FactoryOperate(MostRecentConfig(TheSpan.entityType),
                                        TheSpan.text, 0, Len(TheSpan.text))
         IN /\ anonymized.ok = expected.ok
            /\ anonymized.ok => anonymized.text = SplicedWith(expected.text)

\* The constructor gave URL a MASK operator; PERSON then got REDACT and the
\* default was set to a REPLACE; a PERSON span was removed, and URL kept MASK.
C27_Witness ==
  /\ OneSpanDone
  /\ anonClass = "engine"
  /\ DOMAIN operators = {"URL", "PERSON"}
  /\ operators["URL"] = MaskConfig
  /\ operators["PERSON"] = RedactConfig
  /\ defaultOperator = ReplaceAnonymizedConfig
  /\ configured
  /\ TheSpan = SpanOf(AnalysedText, "PERSON", 0, 2, 95)
  /\ anonymized.items[1].operator = "redact"
  /\ anonymized.text = <<99>>

\* C18: when a span's operator has a type the anonymizer does not implement,
\* the call fails with an error; no other behaviour is substituted.
C18_UnknownOperatorIsError ==
  (AnonDone /\ \E k \in 1..Len(analyzerResults) :
                 ConfigOf(analyzerResults[k]).type \notin ImplementedTypes(anonClass)) =>
    ~anonymized.ok

\* An operator configuration createOperator rejects.
InvalidConfig(c) ==
  \/ c.type \notin ImplementedTypes("engine")
  \/ c.type = "encrypt" /\ ~TruthyString(c.newValue)

\* C19: once an invalid operator configuration has been supplied to an
\* AnonymizerEngine (constructor, setDefaultOperator or addOperatorForEntity)
\* no anonymize call returns a result with it in place, whatever the spans.
C19_InvalidConfigRejectedWhenSupplied ==
  (anonPc = "engine"
     /\ (InvalidConfig(defaultOperator)
           \/ \E t \in DOMAIN operators : InvalidConfig(operators[t]))) =>
    ~anonymized.ok

\* ================================================================= analyze
\* One analyze call on a PresidioAnalyzer (pattern recognizers, then the NER
\* recognizer) or on an AnalyzerEngine (pattern recognizer, NER recognizer,
\* one custom recognizer), suspended on one recognizer at a time.
Recognizers(a) ==
  IF a = "presidio" THEN <<"pattern", "ner">> ELSE <<"pattern", "ner", "custom">>

KindsOf(types) == {k \in CandidateKinds : k[1] \in types}

\* What a recognizer can find in the text: nothing, or one span.  The pattern
\* recognizers find URLs, the NER recognizers persons, a custom recognizer
\* anything.
FoundBy(name) ==
  LET types == CASE name = "pattern" -> {"URL"}
                 [] name = "ner" -> {"PERSON"}
                 [] name = "custom" -> EntityTypes
  IN {<<>>} \cup
     {<<Candidate(k[1], se[1], se[2], k[2])>> :
        k \in KindsOf(types),
        se \in {p \in (0..TextLen) \X (0..TextLen) : p[1] < p[2]}}

\* What the recognizer's call hands back for `found`.  AnalyzerEngine passes
\* `entities` to recognizer.analyze: its PatternRecognizer and NerRecognizer
\* look only for the entity types in it; a custom recognizer (analyze(text) in
\* the README) does not read it.  PresidioAnalyzer's recognizers take no filter.
HandedBack(a, name, found, ents) ==
  IF a = "engine" /\ name \in {"pattern", "ner"} THEN EntityFilter(found, ents)
  ELSE found

\* The rest of analyze once every recognizer has run.
AnalyzeResolve(a, rs, ents) ==
  IF a = "presidio" THEN PresidioResolve(rs, ents) ELSE EngineResolve(rs).out

\* The texts passed to analyze: empty, whitespace only, and the analysed text.
Texts == {<<>>, <<32>>, AnalysedText}

WhiteSpace == {9, 10, 13, 32}

\* String.prototype.trim
Trim(s) ==
  LET keep == {i \in 1..Len(s) : s[i] \notin WhiteSpace}
  IN IF keep = {} THEN <<>>
     ELSE SubSeq(s, CHOOSE i \in keep : \A j \in keep : i <= j,
                    CHOOSE i \in keep : \A j \in keep : i >= j)

\* What a recognizer can find in `txt`: a text without a visible character
\* holds no entity.
FoundIn(name, txt) == IF Trim(txt) = <<>> THEN {<<>>} ELSE FoundBy(name)

AnalyzeInit ==
  /\ analyzer \in {"presidio", "engine"}
  /\ entities = <<>>
  /\ callPc = "idle"
  /\ awaiting = 0
  /\ allResults = <<>>
  /\ outcomes = <<>>
  /\ returned = <<>>
  /\ analyzeText = <<>>
  /\ initializeCalled = FALSE
  /\ recognizerClass = (IF analyzer = "presidio" THEN "NERRecognizer" ELSE "NerRecognizer")
  /\ nerPipeline = 0
  /\ loadsStarted = 0
  /\ loadsCompleted = 0
  /\ calls = [c \in 1..MaxCalls |-> NoCall]
  /\ ResolverIdle
  /\ CardIdle
  /\ TokenIdle
  /\ ConcurrentIdle
  /\ AnonIdle

\* PresidioAnalyzer.initialize() is called and awaited before analyze: it
\* loads the model, or rejects with the pipeline left unset.  AnalyzerEngine
\* has no initialize().
AnalyzerInitialize ==
  /\ callPc = "idle"
  /\ analyzer = "presidio"
  /\ ~initializeCalled
  /\ initializeCalled' = TRUE
  /\ loadsStarted' = loadsStarted + 1
  /\ \E loaded \in BOOLEAN :
       IF loaded
       THEN nerPipeline' = loadsStarted + 1 /\ loadsCompleted' = loadsCompleted + 1
       ELSE UNCHANGED <<nerPipeline, loadsCompleted>>
  /\ UNCHANGED <<analyzer, entities, callPc, awaiting, allResults, outcomes, returned,
                 analyzeText>>
  /\ UNCHANGED <<recognizerClass, calls>>
  /\ UNCHANGED <<resolverVars, anonVars, cardVars, tokenVars, concurrentVars>>

\* analyze(text, entities) is called.  AnalyzerEngine.analyze returns [] at
\* once for an empty or whitespace-only text; PresidioAnalyzer.analyze has no
\* such test.
AnalyzeCall ==
  /\ callPc = "idle"
  /\ \E txt \in Texts, ents \in {Undefined} \cup {Some({t}) : t \in EntityTypes} :
       /\ analyzeText' = txt
       /\ entities' = ents
       /\ IF analyzer = "engine" /\ (txt = <<>> \/ Len(Trim(txt)) = 0)
          THEN callPc' = "done" /\ awaiting' = 0
          ELSE callPc' = "running" /\ awaiting' = 1
  /\ returned' = <<>>
  /\ UNCHANGED <<analyzer, allResults, outcomes, initializeCalled>>
  /\ UNCHANGED <<resolverVars, anonVars, modelVars, cardVars, tokenVars, concurrentVars>>

\* After recognizer number `awaiting` settled with allResults `rs`: go on to
\* the next recognizer, or resolve and return.
ContinueAnalyze(rs) ==
  /\ allResults' = rs
  /\ IF awaiting < Len(Recognizers(analyzer))
     THEN /\ awaiting' = awaiting + 1
          /\ UNCHANGED <<callPc, returned>>
     ELSE /\ callPc' = "done"
          /\ returned' = AnalyzeResolve(analyzer, rs, entities)
          /\ UNCHANGED awaiting

\* The model recognizer's initialize() inside the call: no pipeline is stored,
\* the load is awaited and delivers one.
RecognizerLoadsModel ==
  /\ callPc = "running"
  /\ Recognizers(analyzer)[awaiting] = "ner"
  /\ nerPipeline = 0
  /\ nerPipeline' = loadsStarted + 1
  /\ loadsStarted' = loadsStarted + 1
  /\ loadsCompleted' = loadsCompleted + 1
  /\ UNCHANGED analyzeVars
  /\ UNCHANGED <<recognizerClass, calls>>
  /\ UNCHANGED <<resolverVars, anonVars, cardVars, tokenVars, concurrentVars>>

\* The recognizer returns what it found; the model recognizer does so after
\* inference on the stored pipeline.
RecognizerReturns ==
  /\ callPc = "running"
  /\ LET name == Recognizers(analyzer)[awaiting]
     IN /\ name = "ner" => nerPipeline # 0
        /\ \E found \in FoundIn(name, analyzeText) :
             /\ outcomes' = Append(outcomes,
                                   [threw |-> FALSE, found |-> found,
                                    pipeline |-> IF name = "ner" THEN nerPipeline ELSE 0])
             /\ ContinueAnalyze(allResults \o HandedBack(analyzer, name, found, entities))
  /\ UNCHANGED <<analyzer, entities, analyzeText, initializeCalled>>
  /\ UNCHANGED <<resolverVars, anonVars, modelVars, cardVars, tokenVars, concurrentVars>>

\* The recognizer throws or its promise rejects; for the model recognizer with
\* no pipeline stored this is the load that rejects, otherwise the inference.
\* AnalyzerEngine.analyze catches and logs it; PresidioAnalyzer.analyze has no
\* handler around nerRecognizer.recognize, so the call rejects.
RecognizerThrows ==
  /\ callPc = "running"
  /\ analyzer = "engine" \/ Recognizers(analyzer)[awaiting] = "ner"
  /\ outcomes' = Append(outcomes, [threw |-> TRUE, found |-> <<>>, pipeline |-> 0])
  /\ IF Recognizers(analyzer)[awaiting] = "ner" /\ nerPipeline = 0
     THEN loadsStarted' = loadsStarted + 1
     ELSE UNCHANGED loadsStarted
  /\ IF analyzer = "engine"
     THEN ContinueAnalyze(allResults)
     ELSE /\ callPc' = "failed"
          /\ UNCHANGED <<awaiting, allResults, returned>>
  /\ UNCHANGED <<analyzer, entities, analyzeText, initializeCalled>>
  /\ UNCHANGED <<recognizerClass, nerPipeline, loadsCompleted, calls>>
  /\ UNCHANGED <<resolverVars, anonVars, cardVars, tokenVars, concurrentVars>>

AnalyzeNext ==
  \/ AnalyzerInitialize
  \/ AnalyzeCall
  \/ RecognizerLoadsModel
  \/ RecognizerReturns
  \/ RecognizerThrows

SpecAnalyze == AnalyzeInit /\ [][AnalyzeNext]_vars

\* ------------------------------------------------------- analyze: claims
RECURSIVE Flatten(_)
Flatten(ss) == IF ss = <<>> THEN <<>> ELSE Head(ss) \o Flatten(Tail(ss))

\* Everything the recognizers that did not throw found, in registration order.
AllFound == Flatten([i \in 1..Len(outcomes) |-> outcomes[i].found])

\* What each recognizer that did not throw handed back, in registration order.
AllHandedBack ==
  Flatten([i \in 1..Len(outcomes) |->
             HandedBack(analyzer, Recognizers(analyzer)[i], outcomes[i].found, entities)])

\* C8: with an entity filter, every returned result has a type in the filter
\* and the call returns what resolution of the in-filter candidates alone
\* gives: candidates of other types take no part in overlap resolution.
C8_FilterBeforeResolution ==
  (callPc = "done" /\ entities # Undefined) =>
    /\ \A i \in 1..Len(returned) : returned[i].entityType \in entities[1]
    /\ returned = AnalyzeResolve(analyzer, EntityFilter(AllFound, entities), Undefined)

\* C9: when a recognizer throws, the call still completes and returns what
\* the other recognizers' candidates resolve to.
C9_RecognizerFailureIsolated ==
  (callPc \in {"done", "failed"} /\ \E i \in 1..Len(outcomes) : outcomes[i].threw) =>
    /\ callPc = "done"
    /\ returned = AnalyzeResolve(analyzer, AllHandedBack, entities)

\* The run of the model recognizer in the call, when it settled without error.
ModelInferenceRan ==
  \E i \in 1..Len(outcomes) :
    /\ Recognizers(analyzer)[i] = "ner"
    /\ ~outcomes[i].threw
    /\ outcomes[i].pipeline # 0

\* C11: an analyze call on a text with visible characters, made before
\* initialize() was ever called, either rejects or returns after the model
\* was loaded and inference ran on the loaded pipeline; it never returns a
\* list computed without the model.
C11_NoSilentModelSkip ==
  (callPc \in {"done", "failed"} /\ ~initializeCalled /\ Trim(analyzeText) # <<>>) =>
    (callPc = "failed" \/ ModelInferenceRan)

\* C12: analyze on an empty or whitespace-only text returns the empty list
\* and invokes no recognizer: no recognizer ran and no model load was started
\* by the call.
C12_BlankTextShortCircuits ==
  (callPc \in {"running", "done", "failed"} /\ Trim(analyzeText) = <<>>) =>
    /\ callPc = "done"
    /\ returned = <<>>
    /\ outcomes = <<>>
    /\ loadsStarted = (IF initializeCalled THEN 1 ELSE 0)

\* ============================================================ model loading
\* One model-based recognizer instance and up to MaxCalls calls of
\* initialize() and recognize()/analyze() on it.  JavaScript runs each call
\* until its next await; the steps below are those stretches.

\* initialize() up to its await: with no pipeline stored it calls pipeline(...)
\* and suspends on the load; otherwise it returns.
InitializeBegins(c, kind) ==
  IF nerPipeline = 0
  THEN /\ loadsStarted' = loadsStarted + 1
       /\ calls' = [calls EXCEPT ![c] = [kind |-> kind, pc |-> "loading",
                                          load |-> loadsStarted + 1, uses |-> 0]]
  ELSE /\ calls' = [calls EXCEPT ![c] = [kind |-> kind,
                                          pc |-> IF kind = "initialize" THEN "done"
                                                 ELSE "initialized",
                                          load |-> 0, uses |-> 0]]
       /\ UNCHANGED loadsStarted

\* A caller calls initialize().
CallInitialize(c) ==
  /\ calls[c].kind = "none"
  /\ InitializeBegins(c, "initialize")
  /\ UNCHANGED <<recognizerClass, nerPipeline, loadsCompleted>>
  /\ UNCHANGED <<resolverVars, anonVars, analyzeVars, cardVars, tokenVars, concurrentVars>>

\* A caller calls NERRecognizer.recognize(text) or NerRecognizer.analyze(text).
\* recognize awaits initialize() only when no pipeline is stored, and
\* otherwise goes straight to inference; analyze always awaits initialize().
CallRecognize(c) ==
  /\ calls[c].kind = "none"
  /\ IF recognizerClass = "NERRecognizer" /\ nerPipeline # 0
     THEN /\ calls' = [calls EXCEPT ![c] = [kind |-> "recognize", pc |-> "inferring",
                                             load |-> 0, uses |-> nerPipeline]]
          /\ UNCHANGED loadsStarted
     ELSE InitializeBegins(c, "recognize")
  /\ UNCHANGED <<recognizerClass, nerPipeline, loadsCompleted>>
  /\ UNCHANGED <<resolverVars, anonVars, analyzeVars, cardVars, tokenVars, concurrentVars>>

\* The awaited load delivers a pipeline: this.nerPipeline = <it>.
LoadCompletes(c) ==
  /\ calls[c].pc = "loading"
  /\ nerPipeline' = calls[c].load
  /\ loadsCompleted' = loadsCompleted + 1
  /\ calls' = [calls EXCEPT ![c].pc =
                 IF calls[c].kind = "initialize" THEN "done" ELSE "initialized"]
  /\ UNCHANGED <<recognizerClass, loadsStarted>>
  /\ UNCHANGED <<resolverVars, anonVars, analyzeVars, cardVars, tokenVars, concurrentVars>>

\* The awaited load rejects: initialize() rejects, and so does the caller.
LoadFails(c) ==
  /\ calls[c].pc = "loading"
  /\ calls' = [calls EXCEPT ![c].pc = "failed"]
  /\ UNCHANGED <<recognizerClass, nerPipeline, loadsStarted, loadsCompleted>>
  /\ UNCHANGED <<resolverVars, anonVars, analyzeVars, cardVars, tokenVars, concurrentVars>>

\* After `await this.initialize()`: await this.nerPipeline(text).
InferenceBegins(c) ==
  /\ calls[c].pc = "initialized"
  /\ calls' = [calls EXCEPT ![c].pc = "inferring", ![c].uses = nerPipeline]
  /\ UNCHANGED <<recognizerClass, nerPipeline, loadsStarted, loadsCompleted>>
  /\ UNCHANGED <<resolverVars, anonVars, analyzeVars, cardVars, tokenVars, concurrentVars>>

\* The inference settles, with tokens or with an error.
InferenceSettles(c) ==
  /\ calls[c].pc = "inferring"
  /\ \E pc \in {"done", "failed"} : calls' = [calls EXCEPT ![c].pc = pc]
  /\ UNCHANGED <<recognizerClass, nerPipeline, loadsStarted, loadsCompleted>>
  /\ UNCHANGED <<resolverVars, anonVars, analyzeVars, cardVars, tokenVars, concurrentVars>>

ModelInit ==
  /\ recognizerClass \in {"NERRecognizer", "NerRecognizer"}
  /\ nerPipeline = 0
  /\ loadsStarted = 0
  /\ loadsCompleted = 0
  /\ calls = [c \in 1..MaxCalls |-> NoCall]
  /\ ResolverIdle
  /\ CardIdle
  /\ TokenIdle
  /\ ConcurrentIdle
  /\ AnonIdle
  /\ AnalyzeIdle

ModelNext ==
  \E c \in 1..MaxCalls :
    \/ CallInitialize(c)
    \/ CallRecognize(c)
    \/ LoadCompletes(c)
    \/ LoadFails(c)
    \/ InferenceBegins(c)
    \/ InferenceSettles(c)

SpecModel == ModelInit /\ [][ModelNext]_vars

\* --------------------------------------------------- model loading: claims
\* C10: over any interleaving of initialize() and recognize()/analyze() calls
\* on one recognizer, the model pipeline is loaded at most once.
C10_LoadedAtMostOnce == loadsCompleted <= 1

\* ================================================================ resolver
\* The recognizers push their candidates onto `results`; one analyze call
\* then resolves them.
ResolverInit ==
  /\ ResolverIdle /\ AnonIdle /\ AnalyzeIdle /\ ModelIdle /\ CardIdle /\ TokenIdle
  /\ ConcurrentIdle

\* results.push(...) of one more candidate a recognizer found.
RecognizerPush ==
  /\ resolverPc = "ready"
  /\ Len(results) < MaxCands
  /\ \E c \in Candidates :
       results' = Append(results, c)
  /\ UNCHANGED <<resolved, objects, resolverPc>>
  /\ UNCHANGED <<anonVars, analyzeVars, modelVars, cardVars, tokenVars, concurrentVars>>

PresidioAnalyzeResolve ==
  /\ resolverPc = "ready"
  /\ resolved' = PresidioResolve(results, NoFilter)
  /\ objects' = results
  /\ resolverPc' = "presidio"
  /\ UNCHANGED results
  /\ UNCHANGED <<anonVars, analyzeVars, modelVars, cardVars, tokenVars, concurrentVars>>

EngineAnalyzeResolve ==
  /\ resolverPc = "ready"
  /\ LET r == EngineResolve(results)
     IN /\ resolved' = r.out
        /\ objects' = r.heap
  /\ resolverPc' = "engine"
  /\ UNCHANGED results
  /\ UNCHANGED <<anonVars, analyzeVars, modelVars, cardVars, tokenVars, concurrentVars>>

ResolverNext == RecognizerPush \/ PresidioAnalyzeResolve \/ EngineAnalyzeResolve

SpecResolver == ResolverInit /\ [][ResolverNext]_vars

\* ------------------------------------------------------ resolver: claims
Overlap(a, b) == a.start < b.end /\ b.start < a.end

ResolverDone == resolverPc \in {"presidio", "engine"}

\* C1: the list analyze returns is sorted ascending by start and no two of
\* its spans overlap: each span ends at or before the start of the next.
C1_NonOverlapSorted ==
  ResolverDone =>
    /\ \A i \in 1..Len(resolved) - 1 : resolved[i].end <= resolved[i + 1].start
    /\ \A i, j \in 1..Len(resolved) : i # j => ~Overlap(resolved[i], resolved[j])

C1_Witness ==
  /\ resolverPc = "engine"
  /\ Len(results) = 3
  /\ \E i, j \in 1..3 :
       /\ i # j
       /\ results[i].start = results[j].start /\ results[i].end = results[j].end
       /\ results[i].entityType # results[j].entityType
  /\ Len(resolved) = 2

TwoOverlappingDifferentScores ==
  /\ Len(results) = 2
  /\ Overlap(results[1], results[2])
  /\ results[1].score # results[2].score

HigherOfTwo ==
  IF results[1].score > results[2].score THEN results[1] ELSE results[2]

\* C3: given exactly two overlapping candidates with different scores, the
\* resolver returns exactly the higher-score candidate.
C3_HigherScoreWins ==
  (ResolverDone /\ TwoOverlappingDifferentScores) => resolved = <<HigherOfTwo>>

AsSet(s) == {s[i] : i \in 1..Len(s)}

\* C4: every span the resolver returns equals, in all five fields, one of the
\* candidates the recognizers produced, and no candidate object is changed
\* by the call.
C4_OutputsAreCandidates ==
  ResolverDone =>
    /\ \A i \in 1..Len(resolved) : resolved[i] \in AsSet(results)
    /\ objects = results

TwoOverlappingEqualScores ==
  /\ Len(results) = 2
  /\ Overlap(results[1], results[2])
  /\ results[1].score = results[2].score
  /\ results[1].score >= scoreThreshold

SpanLength(r) == r.end - r.start

\* The longer of the two candidates; of two equally long ones, the one
\* earlier in the candidate list.
LongerOrEarlierOfTwo ==
  IF SpanLength(results[2]) > SpanLength(results[1]) THEN results[2] ELSE results[1]

\* C21: given exactly two overlapping candidates with equal scores (at or
\* above the engine's threshold), the resolver returns exactly the longer one, and of two equally long ones the
\* one earlier in the candidate list.
C21_EqualScoresLongerThenEarlier ==
  (ResolverDone /\ TwoOverlappingEqualScores) => resolved = <<LongerOrEarlierOfTwo>>

\* A span of the analysed text whose text field is the characters it covers
\* and whose score is a probability.
WellFormedSpan(r) ==
  /\ 0 <= r.start /\ r.start < r.end /\ r.end <= TextLen
  /\ r.text = Substring(AnalysedText, r.start, r.end)
  /\ 0 <= r.score /\ r.score <= 100

\* C23: when every candidate is a well-formed span of the analysed text,
\* every result analyze returns is one too: 0 <= start < end <= length,
\* text is the substring [start, end) and the score lies in [0, 1].
C23_ReturnedSpansWellFormed ==
  (ResolverDone /\ \A i \in 1..Len(results) : WellFormedSpan(results[i])) =>
    \A i \in 1..Len(resolved) : WellFormedSpan(resolved[i])

\* Candidate i shares no character with any other candidate.
Isolated(i) ==
  \A j \in 1..Len(results) : j # i => ~Overlap(results[i], results[j])

\* Candidate i is subject to the threshold of the class that resolved.
PassesThreshold(i) ==
  resolverPc = "engine" => results[i].score >= scoreThreshold

\* C25: a candidate that shares no character with any other candidate, one
\* that only touches another at a boundary included, is in the list analyze
\* returns (in AnalyzerEngine when its score reaches the threshold),
\* whatever the other candidates are.
C25_IsolatedCandidateKept ==
  ResolverDone =>
    \A i \in 1..Len(results) :
      (Isolated(i) /\ PassesThreshold(i)) =>
        \E k \in 1..Len(resolved) : resolved[k] = results[i]

\* A candidate touching the end of another that overlaps a third was kept.
C25_Witness ==
  /\ ResolverDone
  /\ Len(results) = 3
  /\ \E i, j, m \in 1..3 :
       /\ i # j /\ j # m /\ i # m
       /\ Isolated(i) /\ PassesThreshold(i)
       /\ results[j].end = results[i].start
       /\ Overlap(results[j], results[m])
       /\ results[m].score > results[j].score
       /\ \E k \in 1..Len(resolved) : resolved[k] = results[i]

\* Candidate i reaches the threshold and overlaps only candidates below it.
AboveThresholdAmongBelow(i) ==
  /\ results[i].score >= scoreThreshold
  /\ \A j \in 1..Len(results) :
       (j # i /\ Overlap(results[i], results[j])) => results[j].score < scoreThreshold

\* C29: every result AnalyzerEngine.analyze returns has a score at or above
\* the threshold, and a candidate at or above the threshold that overlaps
\* only candidates below it is in the returned list.
C29_ThresholdNeverLosesDetection ==
  resolverPc = "engine" =>
    /\ \A k \in 1..Len(resolved) : resolved[k].score >= scoreThreshold
    /\ \A i \in 1..Len(results) :
         AboveThresholdAmongBelow(i) =>
           \E k \in 1..Len(resolved) : resolved[k] = results[i]

\* ============================================================ credit cards
\* A text holding one card-shaped digit string, given to the static
\* PatternRecognizer.recognizeCreditCard or to the instance
\* PatternRecognizer.analyze(text, [CREDIT_CARD]).

IsDigit(c) == c \in 48..57
\* [-\s]
IsCardSeparator(c) == c \in {45} \cup WhiteSpace
\* \w, for the \b assertions
IsWordChar(c) == c \in (48..57) \cup (65..90) \cup (97..122) \cup {95}

\* Where a match of \d{4}[-\s]?\d{4}[-\s]?\d{4}[-\s]?\d{4} that starts at
\* index `pos` (0-based) with group number g ends, or -1 when there is none.
RECURSIVE CardGroupsEnd(_, _, _)
CardGroupsEnd(text, pos, g) ==
  IF pos + 4 > Len(text) \/ \E k \in 1..4 : ~IsDigit(text[pos + k]) THEN -1
  ELSE IF g = 4 THEN pos + 4
  ELSE IF pos + 4 < Len(text) /\ IsCardSeparator(text[pos + 5])
            /\ CardGroupsEnd(text, pos + 5, g + 1) # -1
       THEN CardGroupsEnd(text, pos + 5, g + 1)
       ELSE CardGroupsEnd(text, pos + 4, g + 1)

\* \b at index i: exactly one of the characters around it is a word character.
WordBoundary(text, i) ==
  (i > 0 /\ IsWordChar(text[i])) # (i < Len(text) /\ IsWordChar(text[i + 1]))

\* The first match of /\b(?:\d{4}[-\s]?){3}\d{4}\b/ (equally of
\* /\b\d{4}[-\s]?\d{4}[-\s]?\d{4}[-\s]?\d{4}\b/) in a text too short for a
\* second one: <<[start, end]>>, or <<>>.
CardMatches(text) ==
  LET ok(s) == /\ WordBoundary(text, s)
               /\ CardGroupsEnd(text, s, 1) # -1
               /\ WordBoundary(text, CardGroupsEnd(text, s, 1))
      starts == {s \in 0..Len(text) : ok(s)}
  IN IF starts = {} THEN <<>>
     ELSE LET s == CHOOSE x \in starts : \A y \in starts : x <= y
          IN <<[start |-> s, end |-> CardGroupsEnd(text, s, 1)]>>

\* cardNumber.replace(/[\s-]/g, '')
RECURSIVE RemoveSeparators(_)
RemoveSeparators(str) ==
  IF str = <<>> THEN <<>>
  ELSE IF IsCardSeparator(Head(str)) THEN RemoveSeparators(Tail(str))
       ELSE <<Head(str)>> \o RemoveSeparators(Tail(str))

\* The loop of validateCreditCard from index i down to 0: the sum so far.
RECURSIVE LuhnLoop(_, _, _, _)
LuhnLoop(cleaned, i, sum, isEven) ==
  IF i < 0 THEN sum
  ELSE LET digit == cleaned[i + 1] - 48
           doubled == IF isEven THEN (IF digit * 2 > 9 THEN digit * 2 - 9 ELSE digit * 2)
                      ELSE digit
       IN LuhnLoop(cleaned, i - 1, sum + doubled, ~isEven)

\* The length and digit test alone, without the checksum.
validateCreditCard_NoChecksum(cardNumber) ==
  LET cleaned == RemoveSeparators(cardNumber)
  IN /\ Len(cleaned) \in 13..19
     /\ \A k \in 1..Len(cleaned) : IsDigit(cleaned[k])

\* PatternRecognizer.validateCreditCard (instance recognizer)
validateCreditCard(cardNumber) ==
  LET cleaned == RemoveSeparators(cardNumber)
  IN /\ Len(cleaned) \in 13..19
     /\ \A k \in 1..Len(cleaned) : IsDigit(cleaned[k])
     /\ LuhnLoop(cleaned, Len(cleaned) - 1, 0, FALSE) % 10 = 0

\* static PatternRecognizer.recognizeCreditCard(text): findMatches with score
\* 0.8 and no further test.
recognizeCreditCard(text) ==
  LET ms == CardMatches(text)
  IN [i \in 1..Len(ms) |->
        [entityType |-> "CREDIT_CARD", start |-> ms[i].start, end |-> ms[i].end,
         score |-> 80, text |-> Substring(text, ms[i].start, ms[i].end)]]

\* The CREDIT_CARD part of the instance PatternRecognizer.analyze: base score
\* 0.85 (the drawn texts hold no context word), and matches failing
\* validateCreditCard skipped.
analyzeCreditCard(text) ==
  LET ms == CardMatches(text)
      valid(m) == validateCreditCard(Substring(text, m.start, m.end))
  IN [i \in 1..Len(FilterSeq(ms, valid)) |->
        LET m == FilterSeq(ms, valid)[i]
        IN [entityType |-> "CREDIT_CARD", start |-> m.start, end |-> m.end,
            score |-> 85, text |-> Substring(text, m.start, m.end)]]

\* The first 14 digits of 4532015112830366, of 1234567890123456 and of
\* 4532123456789010.
CardPrefixes ==
  {<<52, 53, 51, 50, 48, 49, 53, 49, 49, 50, 56, 51, 48, 51>>,
   <<49, 50, 51, 52, 53, 54, 55, 56, 57, 48, 49, 50, 51, 52>>,
   <<52, 53, 51, 50, 49, 50, 51, 52, 53, 54, 55, 56, 57, 48>>}

\* Digit strings of 16 digits (card-shaped) and of 15 (not card-shaped).
CardDigitStrings ==
  {p \o <<a, b>> : p \in CardPrefixes, a \in 48..57, b \in 48..57}
    \cup {p \o <<a>> : p \in CardPrefixes, a \in 48..57}

\* The digits in groups of four, joined by `sep` (<<>>, "-" or " ").
RECURSIVE Grouped(_, _)
Grouped(digits, sep) ==
  IF Len(digits) <= 4 THEN digits
  ELSE SubSeq(digits, 1, 4) \o sep \o Grouped(SubSeq(digits, 5, Len(digits)), sep)

CardTexts == {Grouped(d, sep) : d \in CardDigitStrings, sep \in {<<>>, <<45>>, <<32>>}}

CardInit ==
  /\ cardText \in CardTexts
  /\ cardClass \in {"static", "instance"}
  /\ cardResults = <<>>
  /\ cardPc = "ready"
  /\ ResolverIdle
  /\ AnonIdle
  /\ AnalyzeIdle
  /\ ModelIdle
  /\ TokenIdle
  /\ ConcurrentIdle

\* PatternRecognizer.recognizeCreditCard(text)
RecognizeCreditCardCall ==
  /\ cardPc = "ready"
  /\ cardClass = "static"
  /\ cardResults' = recognizeCreditCard(cardText)
  /\ cardPc' = "done"
  /\ UNCHANGED <<cardText, cardClass>>
  /\ UNCHANGED <<resolverVars, anonVars, analyzeVars, modelVars, tokenVars, concurrentVars>>

\* new PatternRecognizer().analyze(text, [EntityType.CREDIT_CARD])
AnalyzeCreditCardCall ==
  /\ cardPc = "ready"
  /\ cardClass = "instance"
  /\ cardResults' = analyzeCreditCard(cardText)
  /\ cardPc' = "done"
  /\ UNCHANGED <<cardText, cardClass>>
  /\ UNCHANGED <<resolverVars, anonVars, analyzeVars, modelVars, tokenVars, concurrentVars>>

CardNext == RecognizeCreditCardCall \/ AnalyzeCreditCardCall

SpecCreditCard == CardInit /\ [][CardNext]_vars

\* ---------------------------------------------------- credit cards: claims
\* The Luhn checksum as C20 states it: counting from the rightmost digit,
\* every second digit is doubled, 9 subtracted from a result over 9, and the
\* total of all digits is a multiple of 10.
PassesLuhn(str) ==
  LET ds == RemoveSeparators(str)
      n == Len(ds)
      fromRight(k) == ds[n + 1 - k] - 48
      term(k) == IF k % 2 = 0
                 THEN (IF 2 * fromRight(k) > 9 THEN 2 * fromRight(k) - 9
                       ELSE 2 * fromRight(k))
                 ELSE fromRight(k)
      total[k \in 0..n] == IF k = 0 THEN 0 ELSE total[k - 1] + term(k)
  IN total[n] % 10 = 0

\* The text is card-shaped: sixteen digits in groups of four.
CardShaped == Len(RemoveSeparators(cardText)) = 16

TokenText == <<97, 98, 99, 100>>

Label(prefix, tag) == [prefix |-> prefix, tag |-> tag]

\* The labels drawn: B-PER, I-PER, PER, I-LOC and B-MISC.
Labels ==
  {Label("B-", "PER"), Label("I-", "PER"), Label("", "PER"),
   Label("I-", "LOC"), Label("B-", "MISC")}

\* Token scores, in hundredths; their averages over up to four tokens are
\* whole hundredths.
TokenScores == {60, 96}

NoEntityType == "null"

\* NERRecognizer.mapEntityType: nerType.replace(/^[BI]-/, '') looked up in
\* typeMap.
mapEntityType(nerType) ==
  LET normalized == nerType.tag
  IN CASE normalized \in {"PER", "PERSON"} -> "PERSON"
       [] normalized \in {"LOC", "LOCATION"} -> "LOCATION"
       [] normalized \in {"ORG", "ORGANIZATION"} -> "ORGANIZATION"
       [] OTHER -> NoEntityType

\* NerRecognizer.entityMapping.get(label): the map is keyed by whole labels.
entityMapping(label) ==
  CASE label.prefix = "" /\ label.tag \in {"PER", "PERSON"} -> "PERSON"
    [] label.prefix \in {"B-", "I-"} /\ label.tag = "PER" -> "PERSON"
    [] label.prefix = "" /\ label.tag \in {"LOC", "LOCATION", "GPE"} -> "LOCATION"
    [] label.prefix \in {"B-", "I-"} /\ label.tag = "LOC" -> "LOCATION"
    [] label.prefix = "" /\ label.tag \in {"ORG", "ORGANIZATION"} -> "ORGANIZATION"
    [] label.prefix \in {"B-", "I-"} /\ label.tag = "ORG" -> "ORGANIZATION"
    [] label.prefix = "" /\ label.tag \in {"DATE", "TIME"} -> "DATE_TIME"
    [] label.prefix \in {"B-", "I-"} /\ label.tag = "DATE" -> "DATE_TIME"
    [] OTHER -> NoEntityType

\* NerRecognizer.supportedEntities
supportedEntities == {"PERSON", "LOCATION", "ORGANIZATION", "DATE_TIME"}

\* The entity filters passed to NerRecognizer.analyze: none, or [PERSON].
NerFilters == {Undefined, Some({"PERSON"})}

\* One pass of NERRecognizer.recognize's loop; st is [results, currentEntity],
\* currentEntity being null (Undefined) or an entity.  The tokens drawn carry
\* start and end, so `result.start || 0` is start and `result.end || ...` end.
RecognizeStep(st, result, text) ==
  LET entityType == mapEntityType(result.entity)
      start == IF result.start # 0 THEN result.start ELSE 0
      end == result.end
      currentEntity == st.currentEntity
  IN IF entityType = NoEntityType THEN st
     ELSE IF /\ currentEntity # Undefined
             /\ currentEntity[1].entityType = entityType
             /\ currentEntity[1].end >= start - 1
          THEN [st EXCEPT !.currentEntity =
                  Some([entityType |-> entityType,
                        start |-> currentEntity[1].start,
                        end |-> end,
                        score |-> Max(currentEntity[1].score, result.score),
                        text |-> Substring(text, currentEntity[1].start, end)])]
          ELSE [results |-> IF currentEntity # Undefined
                            THEN Append(st.results, currentEntity[1])
                            ELSE st.results,
                currentEntity |->
                  Some([entityType |-> entityType, start |-> start, end |-> end,
                        score |-> result.score,
                        text |-> Substring(text, start, end)])]

RECURSIVE RecognizeLoop(_, _, _, _)
RecognizeLoop(st, tokens, k, text) ==
  IF k > Len(tokens) THEN st
  ELSE RecognizeLoop(RecognizeStep(st, tokens[k], text), tokens, k + 1, text)

\* NERRecognizer.recognize(text) once the pipeline returned `tokens`.
recognize(text, tokens) ==
  IF Len(tokens) = 0 THEN <<>>
  ELSE LET st == RecognizeLoop([results |-> <<>>, currentEntity |-> Undefined],
                               tokens, 1, text)
       IN IF st.currentEntity # Undefined
          THEN Append(st.results, st.currentEntity[1])
          ELSE st.results

RECURSIVE SumSeq(_)
SumSeq(q) == IF Len(q) = 0 THEN 0 ELSE Head(q) + SumSeq(Tail(q))

\* NerRecognizer.finalizeEntity
finalizeEntity(entity, text) ==
  [entityType |-> entity.entityType,
   start |-> entity.start,
   end |-> entity.end,
   score |-> SumSeq(entity.scores) \div Len(entity.scores),
   text |-> Substring(text, entity.start, entity.end)]

\* One pass of NerRecognizer.analyze's loop.
NerAnalyzeStep(st, token, entitiesToCheck, text) ==
  LET entityType == entityMapping(token.entity)
      currentEntity == st.currentEntity
      pushed == IF currentEntity # Undefined
                THEN Append(st.results, finalizeEntity(currentEntity[1], text))
                ELSE st.results
  IN IF entityType = NoEntityType \/ entityType \notin entitiesToCheck
     THEN [results |-> pushed, currentEntity |-> Undefined]
     ELSE LET isBeginning == token.entity.prefix = "B-"
              isContinuation == token.entity.prefix = "I-"
          IN IF \/ isBeginning
                \/ currentEntity = Undefined
                \/ currentEntity[1].entityType # entityType
             THEN [results |-> pushed,
                   currentEntity |->
                     Some([entityType |-> entityType, start |-> token.start,
                           end |-> token.end, scores |-> <<token.score>>])]
             ELSE IF isContinuation
                  THEN [st EXCEPT !.currentEntity =
                          Some([currentEntity[1] EXCEPT
                                  !.end = token.end,
                                  !.scores = Append(@, token.score)])]
                  ELSE st

RECURSIVE NerAnalyzeLoop(_, _, _, _, _)
NerAnalyzeLoop(st, tokens, k, entitiesToCheck, text) ==
  IF k > Len(tokens) THEN st
  ELSE NerAnalyzeLoop(NerAnalyzeStep(st, tokens[k], entitiesToCheck, text),
                      tokens, k + 1, entitiesToCheck, text)

\* NerRecognizer.analyze(text, entities) once the pipeline returned `tokens`.
NerAnalyze(text, ents, tokens) ==
  LET entitiesToCheck == IF ents # Undefined THEN ents[1] ELSE supportedEntities
      st == NerAnalyzeLoop([results |-> <<>>, currentEntity |-> Undefined],
                           tokens, 1, entitiesToCheck, text)
  IN IF st.currentEntity # Undefined
     THEN Append(st.results, finalizeEntity(st.currentEntity[1], text))
     ELSE st.results

TokenInit ==
  /\ TokenIdle
  /\ ConcurrentIdle
  /\ ResolverIdle
  /\ AnonIdle
  /\ AnalyzeIdle
  /\ ModelIdle
  /\ CardIdle

\* The pipeline's output has one more token: tokens come in text order and
\* do not overlap.
PipelineReturnsToken ==
  /\ nerPc = "model"
  /\ Len(nerResults) < MaxTokens
  /\ \E label \in Labels, s \in 0..Len(TokenText), e \in 0..Len(TokenText),
        sc \in TokenScores :
       /\ s < e
       /\ Len(nerResults) > 0 => nerResults[Len(nerResults)].end <= s
       /\ nerResults' = Append(nerResults,
                               [entity |-> label, start |-> s, end |-> e, score |-> sc])
  /\ UNCHANGED <<nerEntities, nerRecognized, nerPc>>
  /\ UNCHANGED <<resolverVars, anonVars, analyzeVars, modelVars, cardVars, concurrentVars>>

NERRecognizerRecognize ==
  /\ nerPc = "model"
  /\ nerRecognized' = recognize(TokenText, nerResults)
  /\ nerPc' = "NERRecognizer"
  /\ UNCHANGED <<nerResults, nerEntities>>
  /\ UNCHANGED <<resolverVars, anonVars, analyzeVars, modelVars, cardVars, concurrentVars>>

NerRecognizerAnalyze ==
  /\ nerPc = "model"
  /\ \E ents \in NerFilters :
       /\ nerEntities' = ents
       /\ nerRecognized' = NerAnalyze(TokenText, ents, nerResults)
  /\ nerPc' = "NerRecognizer"
  /\ UNCHANGED nerResults
  /\ UNCHANGED <<resolverVars, anonVars, analyzeVars, modelVars, cardVars, concurrentVars>>

TokenNext == PipelineReturnsToken \/ NERRecognizerRecognize \/ NerRecognizerAnalyze

SpecTokens == TokenInit /\ [][TokenNext]_vars

\* -------------------------------------------------------- NER tokens: claims
TokenDone == nerPc \in {"NERRecognizer", "NerRecognizer"}

\* The requested entity type token i maps to in the recognizer that ran, or
\* NoEntityType.
RequestedTypeOf(i) ==
  IF nerPc = "NERRecognizer" THEN mapEntityType(nerResults[i].entity)
  ELSE LET t == entityMapping(nerResults[i].entity)
       IN IF nerEntities = Undefined \/ t \in nerEntities[1] THEN t ELSE NoEntityType

\* Token i lies inside the emitted entity k.
TokenInside(i, k) ==
  /\ nerRecognized[k].start <= nerResults[i].start
  /\ nerResults[i].end <= nerRecognized[k].end

\* C24: two consecutive tokens of requested types lie in one emitted entity
\* only when they map to the same entity type and the second starts at most
\* one character after the first ends.
C24_MergeOnlyAcrossSmallGap ==
  TokenDone =>
    \A i \in 1..Len(nerResults) - 1 :
      (/\ RequestedTypeOf(i) # NoEntityType
       /\ RequestedTypeOf(i + 1) # NoEntityType
       /\ \E k \in 1..Len(nerRecognized) : TokenInside(i, k) /\ TokenInside(i + 1, k)) =>
        /\ RequestedTypeOf(i) = RequestedTypeOf(i + 1)
        /\ nerResults[i + 1].start - nerResults[i].end <= 1

\* C28: every token of a requested entity type lies inside exactly one
\* emitted entity of that type.
C28_NoTokenDropped ==
  TokenDone =>
    \A i \in 1..Len(nerResults) :
      RequestedTypeOf(i) # NoEntityType =>
        Cardinality({k \in 1..Len(nerRecognized) :
                       /\ nerRecognized[k].entityType = RequestedTypeOf(i)
                       /\ TokenInside(i, k)}) = 1

\* ======================================================== concurrent calls
\* Several analyze calls in flight on one analyzer instance, each suspended
\* at its awaits, and AnalyzerEngine.addRecognizer called in between.  Model
\* loads and inferences succeed here; their failures are the analyze
\* specification's subject.  No entity filter is passed.

\* The two texts analysed: 'abc' and 'xyz'.
ConcurrentTexts == {AnalysedText, <<120, 121, 122>>}

\* What each recognizer finds in a text; a recognizer is a function of the
\* text it is given.  The pattern recognizer finds a URL in the first two
\* characters, the model a person in the last two, a custom recognizer a
\* person in the whole text.
Finds(name, txt) ==
  CASE name = "pattern" -> <<SpanOf(txt, "URL", 0, 2, 85)>>
    [] name = "ner" -> <<SpanOf(txt, "PERSON", 1, 3, 95)>>
    [] name = "custom" -> <<SpanOf(txt, "PERSON", 0, 3, 99)>>

\* The text of another call in flight, as if the text were kept in a field
\* the calls share.
PipelineInput_Shared(c) ==
  LET others == {d \in 1..MaxCalls : d # c /\ inflight[d].pc # "idle"}
  IN IF others = {} THEN inflight[c].text
     ELSE inflight[CHOOSE d \in others : TRUE].text

\* this.nerPipeline(text): the call's own argument.
PipelineInput(c) == inflight[c].text

\* recognizer.analyze(text, entities) / nerRecognizer.recognize(text) is
\* invoked and the call suspends on it: the model recognizer first awaits
\* the load when no pipeline is stored, then the inference.
Invoke(call, name) ==
  IF name = "ner"
  THEN IF nerPipeline = 0
       THEN [call EXCEPT !.pc = "loading", !.loaded = TRUE]
       ELSE [call EXCEPT !.pc = "inferring"]
  ELSE [call EXCEPT !.pc = "awaiting"]

StartsLoad(name) == name = "ner" /\ nerPipeline = 0

\* The call resumes with what recognizer number idx returned: push it, then
\* run the next element of this.recognizers, the array as it is now, or
\* resolve and return when there is none.
Resume(c, found) ==
  LET call == inflight[c]
      pushed == [call EXCEPT !.allResults = @ \o found,
                             !.ran = Append(@, recognizers[call.idx])]
  IN IF call.idx < Len(recognizers)
     THEN LET next == recognizers[call.idx + 1]
          IN /\ inflight' = [inflight EXCEPT
                               ![c] = Invoke([pushed EXCEPT !.idx = call.idx + 1], next)]
             /\ loadsStarted' = IF StartsLoad(next) THEN loadsStarted + 1 ELSE loadsStarted
     ELSE /\ inflight' = [inflight EXCEPT
                            ![c] = [pushed EXCEPT
                                      !.pc = "done",
                                      !.returned = AnalyzeResolve(analyzer, pushed.allResults,
                                                                  Undefined)]]
          /\ UNCHANGED loadsStarted

ConcurrentInit ==
  /\ analyzer \in {"presidio", "engine"}
  /\ entities = <<>>
  /\ callPc = "idle"
  /\ awaiting = 0
  /\ allResults = <<>>
  /\ outcomes = <<>>
  /\ returned = <<>>
  /\ analyzeText = <<>>
  /\ initializeCalled = FALSE
  /\ recognizerClass = (IF analyzer = "presidio" THEN "NERRecognizer" ELSE "NerRecognizer")
  /\ nerPipeline = 0
  /\ loadsStarted = 0
  /\ loadsCompleted = 0
  /\ calls = [c \in 1..MaxCalls |-> NoCall]
  /\ ConcurrentIdle
  /\ ResolverIdle
  /\ AnonIdle
  /\ CardIdle
  /\ TokenIdle

\* analyze(text) is called and runs to its first await.  AnalyzerEngine
\* invokes the first element of this.recognizers; PresidioAnalyzer runs the
\* pattern recognizers at once and invokes the model recognizer.  Calls are
\* numbered in the order they are made.
StartAnalyze(c) ==
  /\ inflight[c].pc = "idle"
  /\ \A d \in 1..c - 1 : inflight[d].pc # "idle"
  /\ \E txt \in ConcurrentTexts :
       LET started == [IdleCall EXCEPT !.text = txt, !.startedWith = Len(recognizers)]
       IN IF analyzer = "engine"
          THEN /\ inflight' = [inflight EXCEPT
                                 ![c] = Invoke([started EXCEPT !.idx = 1], recognizers[1])]
               /\ loadsStarted' =
                    IF StartsLoad(recognizers[1]) THEN loadsStarted + 1 ELSE loadsStarted
          ELSE /\ inflight' = [inflight EXCEPT
                                 ![c] = Invoke([started EXCEPT
                                                  !.allResults = Finds("pattern", txt),
                                                  !.ran = <<"pattern">>,
                                                  !.idx = 2], "ner")]
               /\ loadsStarted' = IF StartsLoad("ner") THEN loadsStarted + 1 ELSE loadsStarted
  /\ UNCHANGED <<recognizers, analyzeVars>>
  /\ UNCHANGED <<recognizerClass, nerPipeline, loadsCompleted, calls>>
  /\ UNCHANGED <<resolverVars, anonVars, cardVars, tokenVars>>

\* A pattern or custom recognizer's promise settles and the call resumes.
RecognizerSettles(c) ==
  /\ inflight[c].pc = "awaiting"
  /\ Resume(c, Finds(recognizers[inflight[c].idx], inflight[c].text))
  /\ UNCHANGED <<recognizers, analyzeVars>>
  /\ UNCHANGED <<recognizerClass, nerPipeline, loadsCompleted, calls>>
  /\ UNCHANGED <<resolverVars, anonVars, cardVars, tokenVars>>

\* The load the call awaits delivers a pipeline: it is stored (nerPipeline
\* numbers the pipelines in the order they arrive) and the call goes on to
\* the inference.
ModelLoadCompletes(c) ==
  /\ inflight[c].pc = "loading"
  /\ nerPipeline' = loadsCompleted + 1
  /\ loadsCompleted' = loadsCompleted + 1
  /\ inflight' = [inflight EXCEPT ![c].pc = "inferring"]
  /\ UNCHANGED <<recognizers, analyzeVars>>
  /\ UNCHANGED <<recognizerClass, loadsStarted, calls>>
  /\ UNCHANGED <<resolverVars, anonVars, cardVars, tokenVars>>

\* The inference settles and the call resumes with the model's results.
ModelInferenceSettles(c) ==
  /\ inflight[c].pc = "inferring"
  /\ Resume(c, Finds("ner", PipelineInput(c)))
  /\ UNCHANGED <<recognizers, analyzeVars>>
  /\ UNCHANGED <<recognizerClass, nerPipeline, loadsCompleted, calls>>
  /\ UNCHANGED <<resolverVars, anonVars, cardVars, tokenVars>>

\* AnalyzerEngine.addRecognizer(recognizer)
AddRecognizer ==
  /\ analyzer = "engine"
  /\ Len(recognizers) < 2 + MaxAdded
  /\ recognizers' = Append(recognizers, "custom")
  /\ UNCHANGED <<inflight, analyzeVars>>
  /\ UNCHANGED <<resolverVars, anonVars, modelVars, cardVars, tokenVars>>

ConcurrentNext ==
  \/ \E c \in 1..MaxCalls :
       \/ StartAnalyze(c)
       \/ RecognizerSettles(c)
       \/ ModelLoadCompletes(c)
       \/ ModelInferenceSettles(c)
  \/ AddRecognizer

SpecConcurrent == ConcurrentInit /\ [][ConcurrentNext]_vars

\* ------------------------------------------------- concurrent calls: claims
\* What a call on `txt` returns when it runs alone with the recognizers regs.
AloneResult(txt, regs) ==
  AnalyzeResolve(analyzer, Flatten([i \in 1..Len(regs) |-> Finds(regs[i], txt)]),
                 Undefined)

\* The candidates the recognizers regs produce for `txt`.
CandidatesFor(txt, regs) == {Finds(regs[i], txt)[1] : i \in 1..Len(regs)}

\* C22: with no recognizer added since a call started, whatever the
\* interleaving with the other calls, the call holds only candidates produced
\* for its own text and returns what it would return running alone.
C22_ConcurrentCallsIndependent ==
  \A c \in 1..MaxCalls :
    Len(recognizers) = inflight[c].startedWith =>
      /\ \A i \in 1..Len(inflight[c].allResults) :
           inflight[c].allResults[i] \in CandidatesFor(inflight[c].text, recognizers)
      /\ inflight[c].pc = "done" =>
           inflight[c].returned = AloneResult(inflight[c].text, recognizers)

\* Two calls on different texts each started a model load, so both were in
\* flight at once, and each returned its own text's result.
C22_Witness ==
  /\ inflight[1].pc = "done" /\ inflight[2].pc = "done"
  /\ inflight[1].text # inflight[2].text
  /\ inflight[1].loaded /\ inflight[2].loaded
  /\ Len(recognizers) = 2
  /\ inflight[1].returned # <<>>
  /\ inflight[1].returned # inflight[2].returned

\* C30: a call that has returned ran exactly the recognizers registered when
\* it started, and returned what those recognizers' candidates resolve to,
\* whatever was added while it was in flight.
C30_AddRecognizerLeavesInflightCall ==
  \A c \in 1..MaxCalls :
    inflight[c].pc = "done" =>
      /\ inflight[c].ran = SubSeq(recognizers, 1, inflight[c].startedWith)
      /\ inflight[c].returned =
           AloneResult(inflight[c].text, SubSeq(recognizers, 1, inflight[c].startedWith))

====
